---- MODULE Spec2Model ----
(***************************************************************************)
(* Model of wol_rust (src/src/main.rs): hardware-address parsing           *)
(* (impl FromStr for Mac), magic-packet construction (build_packet),       *)
(* transmission (send_packet) and the command-line driver (main).          *)
(*                                                                         *)
(* Text is a sequence of Unicode scalar values (character codes), bytes    *)
(* are integers 0..255.  A run starts at one of four entry points: the     *)
(* program's main, or a direct call of from_str, build_packet or           *)
(* send_packet as the unit tests of the module make them.                  *)
(***************************************************************************)
EXTENDS Integers, Sequences, FiniteSets, TLC

VARIABLES
    entry,      \* entry point of the run: "main", "from_str", "build_packet", "send_packet"
    pc,         \* position of control
    s,          \* text handed to from_str
    parsed,     \* result of from_str
    mac,        \* Mac handed to build_packet
    built,      \* result of build_packet
    p,          \* byte slice handed to send_packet
    r,          \* destination handed to send_packet: <<ip, port>>
    socket,     \* the UdpSocket of send_packet: "none", "open", "closed"
    bindRes,    \* outcome of UdpSocket::bind: "none", "ok", "fail"
    sendRes,    \* outcome of socket.send_to: "none", "ok", "fail"
    ret,        \* value returned by send_packet: "none", "Ok(true)", "Err(bind)", "Err(send)"
    net,        \* datagrams handed to the network stack, in order
    args,       \* outcome of opts.parse: [ok, help, mac, bcast]
    bcast,      \* result of parsing the broadcast address
    out,        \* lines printed on standard output
    exitCode    \* process exit status, -1 while running

vars == <<entry, pc, s, parsed, mac, built, p, r, socket, bindRes, sendRes,
          ret, net, args, bcast, out, exitCode>>

(***************************************************************************)
(* Bounds of the input space                                               *)
(***************************************************************************)
MaxGroups == 7      \* inputs of 0..MaxGroups colon-joined groups
MaxShort == 2       \* every text over Alphabet up to this length

(***************************************************************************)
(* Characters.  '/'=47 '0'=48 '9'=57 ':'=58 '@'=64 'A'=65 'F'=70 'G'=71    *)
(* '`'=96 'a'=97 'f'=102 'g'=103 '+'=43 '-'=45 ' '=32 '\n'=10 '.'=46       *)
(* 65296 is U+FF10 FULLWIDTH DIGIT ZERO.                                   *)
(***************************************************************************)
Alphabet == {47, 48, 57, 58, 64, 65, 70, 71, 96, 97, 102, 103, 43, 45, 32, 10, 65296}

None == [some |-> FALSE, val |-> <<>>]
Some(v) == [some |-> TRUE, val |-> v]

(***************************************************************************)
(* str::split(c): the segments between occurrences of c; a text without c  *)
(* (the empty text included) is one segment.                               *)
(***************************************************************************)
RECURSIVE SplitFrom(_, _, _, _, _)
SplitFrom(str, c, i, cur, acc) ==
    IF i > Len(str) THEN Append(acc, cur)
    ELSE IF str[i] = c THEN SplitFrom(str, c, i + 1, <<>>, Append(acc, cur))
    ELSE SplitFrom(str, c, i + 1, Append(cur, str[i]), acc)

split(str, c) == SplitFrom(str, c, 1, <<>>, <<>>)

(***************************************************************************)
(* char::to_digit(16), -1 for None.                                        *)
(***************************************************************************)
to_digit_swapped_offset(c) ==
    IF c \in 48..57 THEN c - 48
    ELSE IF c \in 97..102 THEN c - 87
    ELSE IF c \in 65..70 THEN c - 65
    ELSE -1

to_digit(c) ==
    IF c \in 48..57 THEN c - 48
    ELSE IF c \in 97..102 THEN c - 87
    ELSE IF c \in 65..70 THEN c - 55
    ELSE -1

(***************************************************************************)
(* u8::from_str_radix(e, 16): Err on the empty text, on a lone sign, on a  *)
(* character that is no hex digit and on a value above 255; one leading    *)
(* '+' is accepted, '-' is not (the type is unsigned).                     *)
(***************************************************************************)
RECURSIVE Accumulate(_, _, _)
Accumulate(digits, i, acc) ==
    IF i > Len(digits) THEN [ok |-> TRUE, val |-> acc]
    ELSE IF to_digit(digits[i]) = -1 THEN [ok |-> FALSE, val |-> 0]
    ELSE IF acc * 16 + to_digit(digits[i]) > 255 THEN [ok |-> FALSE, val |-> 0]
    ELSE Accumulate(digits, i + 1, acc * 16 + to_digit(digits[i]))

from_str_radix(e) ==
    IF Len(e) = 0 THEN [ok |-> FALSE, val |-> 0]
    ELSE LET digits == IF e[1] = 43 THEN Tail(e) ELSE e
         IN IF Len(digits) = 0 THEN [ok |-> FALSE, val |-> 0]
            ELSE Accumulate(digits, 1, 0)

(***************************************************************************)
(* .map(from_str_radix).collect::<Result<Vec<_>, _>>(): the values in      *)
(* order, or Err as soon as one segment fails.                             *)
(***************************************************************************)
RECURSIVE CollectFrom(_, _, _)
CollectFrom(segs, i, acc) ==
    IF i > Len(segs) THEN [ok |-> TRUE, val |-> acc]
    ELSE IF ~from_str_radix(segs[i]).ok THEN [ok |-> FALSE, val |-> <<>>]
    ELSE CollectFrom(segs, i + 1, Append(acc, from_str_radix(segs[i]).val))

collect(segs) == CollectFrom(segs, 1, <<>>)

(***************************************************************************)
(* The regex ^([0-9A-Fa-f]{2}:){5}([0-9A-Fa-f]{2})$ .  The pattern has no  *)
(* alternation over lengths, so a match is decided by one left-to-right    *)
(* pass; $ matches at the end of the text only.                            *)
(***************************************************************************)
HexClassWithG(c) == c \in 48..57 \/ c \in 65..70 \/ c \in 97..103

HexClass(c) == c \in 48..57 \/ c \in 65..70 \/ c \in 97..102

\* ([0-9A-Fa-f]{2}:){n} from position pos: the position after it, 0 if no match
RECURSIVE MatchPrefixGroups(_, _, _)
MatchPrefixGroups(str, pos, n) ==
    IF n = 0 THEN pos
    ELSE IF /\ pos + 2 <= Len(str)
            /\ HexClass(str[pos])
            /\ HexClass(str[pos + 1])
            /\ str[pos + 2] = 58
         THEN MatchPrefixGroups(str, pos + 3, n - 1)
         ELSE 0

valid_mac_unanchored(str) ==
    LET q == MatchPrefixGroups(str, 1, 5)
    IN /\ q # 0
       /\ q + 1 <= Len(str)
       /\ HexClass(str[q])
       /\ HexClass(str[q + 1])

valid_mac_is_match(str) ==
    LET q == MatchPrefixGroups(str, 1, 5)
    IN /\ q # 0
       /\ q + 1 <= Len(str)
       /\ HexClass(str[q])
       /\ HexClass(str[q + 1])
       /\ q + 1 = Len(str)

(***************************************************************************)
(* Results of from_str and build_packet                                    *)
(***************************************************************************)
NoResult == [done |-> FALSE, ok |-> FALSE, val |-> <<>>, err |-> ""]
Ok(v) == [done |-> TRUE, ok |-> TRUE, val |-> v, err |-> ""]
Err(e) == [done |-> TRUE, ok |-> FALSE, val |-> <<>>, err |-> e]

\* Mac::new
Mac_new(a) == <<a[1], a[2], a[3], a[4], a[5], a[6]>>

\* Mac::as_bytes
as_bytes_swapped(m) == <<m[2], m[1], m[3], m[4], m[5], m[6]>>

as_bytes(m) == <<m[1], m[2], m[3], m[4], m[5], m[6]>>

\* impl FromStr for Mac
from_str(str) ==
    IF valid_mac_is_match(str)
    THEN LET c == collect(split(str, 58))
         IN IF c.ok
            THEN IF Len(c.val) = 6
                 THEN Ok(Mac_new(c.val))
                 ELSE Err("InvalidLength")
            ELSE Err("FailedConversion")
    ELSE Err("InvalidInput")

\* packet.extend_from_slice(&payload), n times
RECURSIVE Extend(_, _, _)
Extend(packet, payload, n) ==
    IF n = 0 THEN packet ELSE Extend(packet \o payload, payload, n - 1)

build_packet(m) ==
    LET packet == <<255, 255, 255, 255, 255, 255>>
        payload == as_bytes(m)
    IN IF Len(payload) = 6
       THEN LET full == Extend(packet, payload, 16)
            IN IF Len(full) = 102 THEN Ok(full) ELSE Err("InvalidPacketSize")
       ELSE Err("InvalidBufferLength")

(***************************************************************************)
(* Ipv4Addr::from_str (standard library): four decimal fields of one to    *)
(* three digits separated by '.', each at most 255, no leading zero in a   *)
(* field of more than one digit.                                           *)
(***************************************************************************)
RECURSIVE DecimalValue(_, _, _)
DecimalValue(field, i, acc) ==
    IF i > Len(field) THEN acc
    ELSE IF field[i] \notin 48..57 THEN -1
    ELSE DecimalValue(field, i + 1, acc * 10 + (field[i] - 48))

ipv4_field(field) ==
    IF Len(field) = 0 \/ Len(field) > 3 THEN -1
    ELSE IF Len(field) > 1 /\ field[1] = 48 THEN -1
    ELSE IF DecimalValue(field, 1, 0) > 255 THEN -1
    ELSE DecimalValue(field, 1, 0)

ipv4_from_str(str) ==
    LET f == split(str, 46)
    IN IF /\ Len(f) = 4
          /\ \A i \in 1..4 : ipv4_field(f[i]) # -1
       THEN Ok(<<ipv4_field(f[1]), ipv4_field(f[2]), ipv4_field(f[3]), ipv4_field(f[4])>>)
       ELSE Err("AddrParseError")

(***************************************************************************)
(* Inputs                                                                  *)
(***************************************************************************)
\* "00", "fF", "A9"
GroupSet == {<<48, 48>>, <<102, 70>>, <<65, 57>>}

RECURSIVE GroupStrings(_)
GroupStrings(n) ==
    IF n = 0 THEN {<<>>}
    ELSE IF n = 1 THEN GroupSet
    ELSE {g \o <<58>> \o t : g \in GroupSet, t \in GroupStrings(n - 1)}

GroupInputs == UNION {GroupStrings(n) : n \in 0..MaxGroups}

\* "ff:ff:ff:ff:ff:ff"
MacAllFF == <<102, 102, 58, 102, 102, 58, 102, 102, 58, 102, 102, 58, 102, 102, 58, 102, 102>>
\* "FF:FF:FF:FF:FF:FF"
MacAllFFUpper == <<70, 70, 58, 70, 70, 58, 70, 70, 58, 70, 70, 58, 70, 70, 58, 70, 70>>
\* "00:1A:2b:3C:4d:5E"
MacMixed == <<48, 48, 58, 49, 65, 58, 50, 98, 58, 51, 67, 58, 52, 100, 58, 53, 69>>
\* "ff:ff:ff:ff:ff:fg"
MacBadDigit == <<102, 102, 58, 102, 102, 58, 102, 102, 58, 102, 102, 58, 102, 102, 58, 102, 103>>
\* ":::::"
MacColons == <<58, 58, 58, 58, 58>>

BaseStrings == {MacAllFF, MacMixed}

Replace1(str) == {[str EXCEPT ![i] = c] : i \in 1..Len(str), c \in Alphabet}
Delete1(str) == {SubSeq(str, 1, i - 1) \o SubSeq(str, i + 1, Len(str)) : i \in 1..Len(str)}
Insert1(str) ==
    {SubSeq(str, 1, i) \o <<c>> \o SubSeq(str, i + 1, Len(str)) : i \in 0..Len(str), c \in Alphabet}

EditInputs == UNION {Replace1(b) \cup Delete1(b) \cup Insert1(b) : b \in BaseStrings}

ShortInputs == UNION {[1..n -> Alphabet] : n \in 0..MaxShort}

ParseInputs ==
    GroupInputs \cup EditInputs \cup ShortInputs
        \cup {MacAllFF, MacAllFFUpper, MacMixed, MacBadDigit, MacColons}

OctetSamples == {0, 26, 255}

MacInputs == {<<a, b, c, d, e, f>> : a \in OctetSamples, b \in OctetSamples, c \in OctetSamples,
                                     d \in OctetSamples, e \in OctetSamples, f \in OctetSamples}

PayloadLens == {0, 6, 101, 102, 103, 204}

PayloadInputs ==
    {[i \in 1..n |-> b] : n \in PayloadLens, b \in {0, 255}}
        \cup {build_packet(<<0, 26, 43, 60, 77, 94>>).val}

DestInputs == {<<ip, port>> : ip \in {<<127, 0, 0, 1>>, <<255, 255, 255, 255>>}, port \in {9, 7}}

\* "255.255.255.255"
IpBroadcast == <<50, 53, 53, 46, 50, 53, 53, 46, 50, 53, 53, 46, 50, 53, 53>>
\* "127.0.0.1"
IpLoopback == <<49, 50, 55, 46, 48, 46, 48, 46, 49>>
\* "256.0.0.1"
IpBadOctet == <<50, 53, 54, 46, 48, 46, 48, 46, 49>>
\* "10.0.0"
IpShort == <<49, 48, 46, 48, 46, 48>>

MainMacOptions == {None} \cup {Some(v) : v \in {MacAllFF, MacAllFFUpper, MacMixed, MacBadDigit, MacColons, <<>>}}
MainBcastOptions == {None} \cup {Some(v) : v \in {IpBroadcast, IpLoopback, IpBadOctet, IpShort, <<>>}}

ArgsFail == [ok |-> FALSE, help |-> FALSE, mac |-> None, bcast |-> None]

ArgsInputs ==
    {ArgsFail} \cup
    {[ok |-> TRUE, help |-> h, mac |-> m, bcast |-> b] :
        h \in BOOLEAN, m \in MainMacOptions, b \in MainBcastOptions}

(***************************************************************************)
(* Initial states: one per entry point and input                           *)
(***************************************************************************)
Idle ==
    /\ parsed = NoResult
    /\ built = NoResult
    /\ bcast = NoResult
    /\ socket = "none"
    /\ bindRes = "none"
    /\ sendRes = "none"
    /\ ret = "none"
    /\ net = <<>>
    /\ out = <<>>
    /\ exitCode = -1

InitFromStr ==
    /\ entry = "from_str" /\ pc = "call"
    /\ s \in ParseInputs
    /\ mac = <<>> /\ p = <<>> /\ r = <<>> /\ args = ArgsFail
    /\ Idle

InitBuildPacket ==
    /\ entry = "build_packet" /\ pc = "call"
    /\ mac \in MacInputs
    /\ s = <<>> /\ p = <<>> /\ r = <<>> /\ args = ArgsFail
    /\ Idle

InitSendPacket ==
    /\ entry = "send_packet" /\ pc = "sp_bind"
    /\ p \in PayloadInputs
    /\ r \in DestInputs
    /\ s = <<>> /\ mac = <<>> /\ args = ArgsFail
    /\ Idle

InitMain ==
    /\ entry = "main" /\ pc = "main_args"
    /\ args \in ArgsInputs
    /\ s = <<>> /\ mac = <<>> /\ p = <<>> /\ r = <<>>
    /\ Idle

Init == InitFromStr \/ InitBuildPacket \/ InitSendPacket \/ InitMain

(***************************************************************************)
(* Direct calls of the pure functions                                      *)
(***************************************************************************)
CallFromStr ==
    /\ entry = "from_str" /\ pc = "call"
    /\ parsed' = from_str(s)
    /\ pc' = "done"
    /\ UNCHANGED <<entry, s, mac, built, p, r, socket, bindRes, sendRes, ret, net,
                   args, bcast, out, exitCode>>

CallBuildPacket ==
    /\ entry = "build_packet" /\ pc = "call"
    /\ built' = build_packet(mac)
    /\ pc' = "done"
    /\ UNCHANGED <<entry, s, parsed, mac, p, r, socket, bindRes, sendRes, ret, net,
                   args, bcast, out, exitCode>>

(***************************************************************************)
(* send_packet                                                             *)
(***************************************************************************)
\* let socket = try!(UdpSocket::bind(laddr))
SendPacketBind ==
    /\ pc = "sp_bind"
    /\ \E bound \in BOOLEAN :
          IF bound
          THEN /\ bindRes' = "ok"
               /\ socket' = "open"
               /\ pc' = "sp_send"
          ELSE /\ bindRes' = "fail"
               /\ socket' = socket
               /\ pc' = "sp_return"
    /\ UNCHANGED <<entry, s, parsed, mac, built, p, r, sendRes, ret, net,
                   args, bcast, out, exitCode>>

\* try!(socket.send_to(&p[0..102], r)): the slice expression panics when p is
\* shorter than 102 bytes; the panic ends the call (and the thread) without a
\* return value, the socket being closed by unwinding or by process exit.
SendPacketSendTo ==
    /\ pc = "sp_send"
    /\ IF Len(p) < 102
       THEN /\ pc' = "panicked"
            /\ socket' = "closed"
            /\ exitCode' = IF entry = "main" THEN 101 ELSE exitCode
            /\ UNCHANGED <<sendRes, net>>
       ELSE /\ \E sent \in BOOLEAN :
                  IF sent
                  THEN /\ sendRes' = "ok"
                       /\ net' = Append(net, [dst |-> r, payload |-> SubSeq(p, 1, 102)])
                  ELSE /\ sendRes' = "fail"
                       /\ net' = net
            /\ pc' = "sp_return"
            /\ UNCHANGED <<socket, exitCode>>
    /\ UNCHANGED <<entry, s, parsed, mac, built, p, r, bindRes, ret,
                   args, bcast, out>>

\* the three ways out: try! on bind, try! on send_to, Ok(true); the socket
\* goes out of scope and is closed
SendPacketReturnLeak ==
    /\ pc = "sp_return"
    /\ ret' = IF bindRes = "fail" THEN "Err(bind)"
              ELSE IF sendRes = "fail" THEN "Err(send)"
              ELSE "Ok(true)"
    /\ pc' = IF entry = "main" THEN "main_match" ELSE "done"
    /\ UNCHANGED <<entry, s, parsed, mac, built, p, r, socket, bindRes, sendRes, net,
                   args, bcast, out, exitCode>>

SendPacketReturnSwallow ==
    /\ pc = "sp_return"
    /\ ret' = IF bindRes = "fail" THEN "Err(bind)" ELSE "Ok(true)"
    /\ socket' = IF socket = "open" THEN "closed" ELSE socket
    /\ pc' = IF entry = "main" THEN "main_match" ELSE "done"
    /\ UNCHANGED <<entry, s, parsed, mac, built, p, r, bindRes, sendRes, net,
                   args, bcast, out, exitCode>>

SendPacketReturn ==
    /\ pc = "sp_return"
    /\ ret' = IF bindRes = "fail" THEN "Err(bind)"
              ELSE IF sendRes = "fail" THEN "Err(send)"
              ELSE "Ok(true)"
    /\ socket' = IF socket = "open" THEN "closed" ELSE socket
    /\ pc' = IF entry = "main" THEN "main_match" ELSE "done"
    /\ UNCHANGED <<entry, s, parsed, mac, built, p, r, bindRes, sendRes, net,
                   args, bcast, out, exitCode>>

(***************************************************************************)
(* main                                                                    *)
(***************************************************************************)
\* the closure exit: print msg, end the process with code
exit(msg, code) ==
    /\ out' = Append(out, msg)
    /\ exitCode' = code
    /\ pc' = "exited"

\* opts.parse(&args[1..]).unwrap_or_else(...)
MainParseArgs ==
    /\ pc = "main_args"
    /\ IF args.ok
       THEN /\ pc' = "main_help"
            /\ UNCHANGED <<out, exitCode>>
       ELSE exit("could not parse args", 1)
    /\ UNCHANGED <<entry, s, parsed, mac, built, p, r, socket, bindRes, sendRes, ret, net,
                   args, bcast>>

\* if matches.opt_present("help")
MainHelp ==
    /\ pc = "main_help"
    /\ IF args.help
       THEN exit("usage", 0)
       ELSE /\ pc' = "main_mac"
            /\ UNCHANGED <<out, exitCode>>
    /\ UNCHANGED <<entry, s, parsed, mac, built, p, r, socket, bindRes, sendRes, ret, net,
                   args, bcast>>

\* let mac = match matches.opt_str("mac")
MainMac ==
    /\ pc = "main_mac"
    /\ IF args.mac.some
       THEN /\ s' = args.mac.val
            /\ parsed' = from_str(args.mac.val)
            /\ IF from_str(args.mac.val).ok
               THEN /\ mac' = from_str(args.mac.val).val
                    /\ pc' = "main_bcast"
                    /\ UNCHANGED <<out, exitCode>>
               ELSE /\ exit("could not parse mac", 1)
                    /\ mac' = mac
       ELSE /\ exit("usage", 0)
            /\ UNCHANGED <<s, parsed, mac>>
    /\ UNCHANGED <<entry, built, p, r, socket, bindRes, sendRes, ret, net, args, bcast>>

\* let bcast = match matches.opt_str("bcast")
MainBcastMissingIsError ==
    /\ pc = "main_bcast"
    /\ IF args.bcast.some
       THEN /\ bcast' = ipv4_from_str(args.bcast.val)
            /\ IF ipv4_from_str(args.bcast.val).ok
               THEN /\ pc' = "main_build"
                    /\ UNCHANGED <<out, exitCode>>
               ELSE exit("could not parse ip", 1)
       ELSE /\ exit("usage", 1)
            /\ bcast' = bcast
    /\ UNCHANGED <<entry, s, parsed, mac, built, p, r, socket, bindRes, sendRes, ret, net, args>>

MainBcastBadIpIsSuccess ==
    /\ pc = "main_bcast"
    /\ IF args.bcast.some
       THEN /\ bcast' = ipv4_from_str(args.bcast.val)
            /\ IF ipv4_from_str(args.bcast.val).ok
               THEN /\ pc' = "main_build"
                    /\ UNCHANGED <<out, exitCode>>
               ELSE exit("could not parse ip", 0)
       ELSE /\ exit("usage", 0)
            /\ bcast' = bcast
    /\ UNCHANGED <<entry, s, parsed, mac, built, p, r, socket, bindRes, sendRes, ret, net, args>>

MainBcast ==
    /\ pc = "main_bcast"
    /\ IF args.bcast.some
       THEN /\ bcast' = ipv4_from_str(args.bcast.val)
            /\ IF ipv4_from_str(args.bcast.val).ok
               THEN /\ pc' = "main_build"
                    /\ UNCHANGED <<out, exitCode>>
               ELSE exit("could not parse ip", 1)
       ELSE /\ exit("usage", 0)
            /\ bcast' = bcast
    /\ UNCHANGED <<entry, s, parsed, mac, built, p, r, socket, bindRes, sendRes, ret, net, args>>

\* let magic_packet = wol::build_packet(&mac).unwrap_or_else(...)
MainBuild ==
    /\ pc = "main_build"
    /\ built' = build_packet(mac)
    /\ IF build_packet(mac).ok
       THEN /\ pc' = "main_send"
            /\ UNCHANGED <<out, exitCode>>
       ELSE exit("could not build packet", 1)
    /\ UNCHANGED <<entry, s, parsed, mac, p, r, socket, bindRes, sendRes, ret, net, args, bcast>>

\* let raddr = SocketAddrV4::new(bcast, 9); wol::send_packet(&magic_packet, &raddr)
MainSendWrongPort ==
    /\ pc = "main_send"
    /\ p' = built.val
    /\ r' = <<bcast.val, 7>>
    /\ pc' = "sp_bind"
    /\ UNCHANGED <<entry, s, parsed, mac, built, socket, bindRes, sendRes, ret, net,
                   args, bcast, out, exitCode>>

MainSend ==
    /\ pc = "main_send"
    /\ p' = built.val
    /\ r' = <<bcast.val, 9>>
    /\ pc' = "sp_bind"
    /\ UNCHANGED <<entry, s, parsed, mac, built, socket, bindRes, sendRes, ret, net,
                   args, bcast, out, exitCode>>

\* match wol::send_packet(..) { Ok(_) => println!(..), Err(e) => exit(.., 1) };
\* main then returns and the process ends with status 0
MainMatch ==
    /\ pc = "main_match"
    /\ IF ret = "Ok(true)"
       THEN exit("packet sent Ok", 0)
       ELSE exit("could not send request", 1)
    /\ UNCHANGED <<entry, s, parsed, mac, built, p, r, socket, bindRes, sendRes, ret, net,
                   args, bcast>>

Next ==
    \/ CallFromStr
    \/ CallBuildPacket
    \/ SendPacketBind
    \/ SendPacketSendTo
    \/ SendPacketReturn
    \/ MainParseArgs
    \/ MainHelp
    \/ MainMac
    \/ MainBcast
    \/ MainBuild
    \/ MainSend
    \/ MainMatch

Spec == Init /\ [][Next]_vars

(***************************************************************************)
(* Vocabulary of the properties, stated without the operators above        *)
(***************************************************************************)
HexDigitChars == (48..57) \cup (65..70) \cup (97..102)

\* exactly six 2-hex-digit groups separated by single colons
SixGroups(t) ==
    /\ Len(t) = 17
    /\ \A i \in 1..17 : IF i % 3 = 0 THEN t[i] = 58 ELSE t[i] \in HexDigitChars

\* base-16 value of a hex digit: letters count from 10 whatever their case
HexValue(c) == IF c \in 48..57 THEN c - 48 ELSE 9 + (c % 32)

GroupValue(t, k) == 16 * HexValue(t[3 * k - 2]) + HexValue(t[3 * k - 1])

ExpectedMac(t) == [k \in 1..6 |-> GroupValue(t, k)]

LowerHex(t) == [i \in 1..Len(t) |-> IF t[i] \in 65..70 THEN t[i] + 32 ELSE t[i]]

Returned == pc \in {"done", "main_match", "exited"}

ArgsFailed == ~args.ok
MacFailed == parsed.done /\ ~parsed.ok
IpFailed == bcast.done /\ ~bcast.ok
BuildFailed == built.done /\ ~built.ok
SendFailed == ret \in {"Err(bind)", "Err(send)"}

Diagnostics ==
    {"could not parse args", "could not parse mac", "could not parse ip",
     "could not build packet", "could not send request"}

OptionMissing == ~args.mac.some \/ ~args.bcast.some

\* C1: every text of exactly six 2-hex-digit groups separated by single colons
\* parses successfully to the six octets that are the base-16 values of the
\* groups, in textual order, and parses to the same result as the text with
\* its hex letters put in lower case (so texts differing only in the case of
\* hex digits parse to equal Mac values).
C1_ParseValid ==
    (parsed.done /\ SixGroups(s)) =>
        /\ parsed.ok
        /\ parsed.val = ExpectedMac(s)
        /\ parsed = from_str(LowerHex(s))

C1_Witness ==
    /\ entry = "from_str" /\ pc = "done"
    /\ s = MacMixed
    /\ parsed.ok /\ parsed.val = <<0, 26, 43, 60, 77, 94>>

\* C2: every text that is not exactly six 2-hex-digit groups separated by
\* single colons fails to parse, and the error is ParseError::InvalidInput.
C2_ParseInvalid ==
    (parsed.done /\ ~SixGroups(s)) =>
        /\ ~parsed.ok
        /\ parsed.err = "InvalidInput"

C2_Witness ==
    /\ entry = "from_str" /\ pc = "done"
    /\ Len(s) = 20 /\ s \in GroupStrings(7)
    /\ parsed.err = "InvalidInput"

\* C3: for every Mac, build_packet returns Ok with exactly 102 bytes: six
\* bytes 0xFF, then 16 blocks of 6 bytes, each the Mac's octets in order.
C3_PacketLayout ==
    built.done =>
        /\ built.ok
        /\ Len(built.val) = 102
        /\ \A i \in 1..6 : built.val[i] = 255
        /\ \A k \in 0..15 : \A i \in 1..6 : built.val[6 + 6 * k + i] = mac[i]

C3_Witness ==
    /\ entry = "build_packet" /\ pc = "done"
    /\ mac = <<0, 26, 255, 255, 26, 0>>
    /\ built.ok

\* C4 (as stated): when argument parsing succeeds and either required option
\* is missing, the run shows the usage text and exits with status 0 whatever
\* the other option's value, and no packet is built or sent.
C4_Original ==
    (entry = "main" /\ args.ok /\ OptionMissing) =>
        /\ ~built.done /\ bindRes = "none" /\ net = <<>>
        /\ pc = "exited" => (exitCode = 0 /\ out = <<"usage">>)

\* C4 (amended): when argument parsing succeeds and a required option is
\* missing, no packet is built or sent; the run shows the usage text and
\* exits with status 0 when help is requested, the hardware address is
\* missing, or the given hardware address is well formed; when the broadcast
\* address is missing and the given hardware address is malformed, the run
\* prints the hardware-address diagnostic and exits with status 1.
C4_MissingOption ==
    (entry = "main" /\ args.ok /\ OptionMissing) =>
        /\ ~built.done /\ bindRes = "none" /\ net = <<>>
        /\ pc = "exited" =>
              IF args.help \/ ~args.mac.some \/ SixGroups(args.mac.val)
              THEN exitCode = 0 /\ out = <<"usage">>
              ELSE exitCode = 1 /\ out = <<"could not parse mac">>

C4_Witness ==
    /\ entry = "main" /\ pc = "exited"
    /\ args.ok /\ ~args.help
    /\ args.mac.some /\ SixGroups(args.mac.val)
    /\ ~args.bcast.some
    /\ exitCode = 0 /\ out = <<"usage">>

\* C5 (as stated): a run ends with a non-zero status and a diagnostic exactly
\* when argument parsing, hardware-address parsing, packet building or
\* transmission failed; a successful transmission ends with the confirmation
\* and status 0.
C5_Original ==
    (entry = "main" /\ pc = "exited") =>
        /\ (exitCode # 0 /\ Len(out) = 1 /\ out[1] \in Diagnostics)
               <=> (ArgsFailed \/ MacFailed \/ BuildFailed \/ SendFailed)
        /\ ret = "Ok(true)" => (exitCode = 0 /\ out = <<"packet sent Ok">>)

\* C5 (amended): a run ends with a non-zero status and a diagnostic exactly
\* when argument parsing, hardware-address parsing, broadcast-address
\* parsing, packet building or transmission failed; a successful
\* transmission ends with the confirmation and status 0.
C5_ExitStatus ==
    (entry = "main" /\ pc = "exited") =>
        /\ (exitCode # 0 /\ Len(out) = 1 /\ out[1] \in Diagnostics)
               <=> (ArgsFailed \/ MacFailed \/ IpFailed \/ BuildFailed \/ SendFailed)
        /\ (ArgsFailed \/ MacFailed \/ IpFailed \/ BuildFailed \/ SendFailed) => exitCode # 0
        /\ ret = "Ok(true)" => (exitCode = 0 /\ out = <<"packet sent Ok">>)

C5_Witness ==
    /\ entry = "main" /\ pc = "exited"
    /\ IpFailed /\ parsed.ok
    /\ exitCode = 1 /\ out = <<"could not parse ip">>

\* C6: with a 102-byte payload send_packet returns Ok(true) exactly when the
\* bind and the send both succeeded; after a failed bind no send is attempted
\* and the result is an error; after a failed send the result is an error;
\* the result is never Ok(false).
C6_SendResult ==
    (entry \in {"send_packet", "main"} /\ Len(p) = 102) =>
        /\ ret \in {"none", "Ok(true)", "Err(bind)", "Err(send)"}
        /\ Returned => (ret = "Ok(true)" <=> (bindRes = "ok" /\ sendRes = "ok"))
        /\ bindRes = "fail" => (sendRes = "none" /\ net = <<>> /\ ret \in {"none", "Err(bind)"})
        /\ sendRes = "fail" => (net = <<>> /\ ret \in {"none", "Err(send)"})

C6_Witness ==
    /\ entry = "send_packet" /\ pc = "done"
    /\ Len(p) = 102
    /\ bindRes = "ok" /\ sendRes = "fail" /\ ret = "Err(send)"

\* C7: for every byte slice, of any length, send_packet ends by returning
\* Ok(true) or Err(..); it never panics.
C7_NeverPanics == pc # "panicked"

\* C8: the socket opened by send_packet is open only between a successful
\* bind and the return of that call; once the call has returned, with Ok or
\* with Err, no socket is open.
C8_SocketReleased ==
    /\ socket = "open" => (bindRes = "ok" /\ pc \in {"sp_send", "sp_return"})
    /\ (Returned \/ pc = "panicked") => socket # "open"
    /\ (Returned /\ bindRes = "ok") => socket = "closed"

C8_Witness ==
    /\ Returned
    /\ bindRes = "ok" /\ ret = "Err(send)"
    /\ socket = "closed"

\* C9: a run of the program hands at most one datagram to the network, only
\* after the hardware address and the broadcast address parsed and
\* build_packet returned Ok; its destination is (broadcast address, 9) and
\* its payload the 102 bytes build_packet returned for the parsed address;
\* control never comes back to the bind or the send after an attempt.
C9_SingleDatagram ==
    entry = "main" =>
        /\ Len(net) <= 1
        /\ bindRes # "none" => (parsed.ok /\ bcast.ok /\ built.ok)
        /\ pc = "sp_bind" => bindRes = "none"
        /\ pc = "sp_send" => (sendRes = "none" /\ net = <<>>)
        /\ Len(net) = 1 =>
              /\ sendRes = "ok"
              /\ net[1].dst = <<bcast.val, 9>>
              /\ Len(net[1].payload) = 102
              /\ net[1].payload = built.val
              /\ mac = ExpectedMac(args.mac.val)
              /\ \A k \in 0..15 : \A i \in 1..6 : net[1].payload[6 + 6 * k + i] = mac[i]

C9_Witness ==
    /\ entry = "main" /\ pc = "exited"
    /\ Len(net) = 1
    /\ net[1].dst = <<<<127, 0, 0, 1>>, 9>>
    /\ args.mac.val = MacMixed
    /\ exitCode = 0

\* C10: the defensive errors are unreachable: from_str never returns
\* InvalidLength or FailedConversion, build_packet never returns
\* InvalidBufferLength or InvalidPacketSize.
C10_DefensiveUnreachable ==
    /\ parsed.err \notin {"InvalidLength", "FailedConversion"}
    /\ built.err \notin {"InvalidBufferLength", "InvalidPacketSize"}

C10_Witness ==
    /\ entry = "main" /\ pc = "sp_bind"
    /\ parsed.ok /\ built.ok
    /\ valid_mac_is_match(s) /\ Len(split(s, 58)) = 6

====
